---------------------------- MODULE Spec2Model ----------------------------
(***************************************************************************)
(* Model of the Lagrangian particle simulator of src/app.py                *)
(* (simulate_particles, FieldProvider, SyntheticFields, the grid           *)
(* interpolation).                                                         *)
(*                                                                         *)
(* The program computes in binary floating point.  The model computes in   *)
(* fixed point, with these units:                                          *)
(*   latitude, longitude      micro-degrees      (1e-6 degree)             *)
(*   velocity                 millimetres/second                           *)
(*   displacement             micro-metres       (1e-6 m)                  *)
(*   time                     seconds                                      *)
(*   hours argument           minutes            (1/60 hour)               *)
(*   windage, diffusivity     thousandths        (20 is 0.02, 500 is 0.5)  *)
(*   sine, cosine             ten-thousandths                              *)
(*   fractional grid index    hundredths of a cell                         *)
(*   variate of the generator thousandths                                  *)
(* A displacement in micro-metres divided by metres-per-degree is a        *)
(* displacement in micro-degrees, so the unit conversion of the program    *)
(* keeps its form.  Python's true division is modelled by a division that  *)
(* truncates towards zero and so, like the float division, commutes with   *)
(* negation.                                                               *)
(***************************************************************************)
EXTENDS Integers, Sequences, FiniteSets, TLC

\* ------------------------------------------------------------------------
\* Arithmetic helpers
\* ------------------------------------------------------------------------
\* float("nan"), which parse_float (lines 403-405) accepts and a masked
\* dataset cell holds: an integer no fixed-point quantity of the model
\* reaches.  Every float operation of the model is given its value on NaN:
\* arithmetic on a NaN is NaN, a comparison with a NaN is false.
NaN == -2147483647

HasNaN(s) == \E i \in DOMAIN s : s[i] = NaN

\* a + b of two floats
Add(a, b) == IF a = NaN \/ b = NaN THEN NaN ELSE a + b

\* -a of a float
Neg(a) == IF a = NaN THEN NaN ELSE -a

Abs(x) == IF x < 0 THEN -x ELSE x

Max(a, b) == IF a >= b THEN a ELSE b

Min(a, b) == IF a <= b THEN a ELSE b

\* a / b for b > 0, truncated towards zero
Quot(a, b) == IF a >= 0 THEN a \div b ELSE -((-a) \div b)

\* src/app.py clamp(v, a, b) = max(a, min(b, v))
clamp(v, a, b) == Max(a, Min(b, v))

RECURSIVE SqrtSearch(_, _, _)
SqrtSearch(x, lo, hi) ==
    IF lo >= hi THEN lo
    ELSE LET mid == (lo + hi + 1) \div 2
         IN IF mid * mid <= x THEN SqrtSearch(x, mid, hi)
                              ELSE SqrtSearch(x, lo, mid - 1)

\* floor of the square root, for 0 <= x < 46340^2
ISqrt(x) == SqrtSearch(x, 0, 46339)

RECURSIVE SumSeq(_)
SumSeq(s) == IF s = << >> THEN 0 ELSE Head(s) + SumSeq(Tail(s))

\* sin of whole degrees 0..90, in ten-thousandths
SinTable == <<
    0, 175, 349, 523, 698, 872, 1045, 1219, 1392, 1564, 1736, 1908, 2079,
    2250, 2419, 2588, 2756, 2924, 3090, 3256, 3420, 3584, 3746, 3907, 4067, 4226,
    4384, 4540, 4695, 4848, 5000, 5150, 5299, 5446, 5592, 5736, 5878, 6018, 6157,
    6293, 6428, 6561, 6691, 6820, 6947, 7071, 7193, 7314, 7431, 7547, 7660, 7771,
    7880, 7986, 8090, 8192, 8290, 8387, 8480, 8572, 8660, 8746, 8829, 8910, 8988,
    9063, 9135, 9205, 9272, 9336, 9397, 9455, 9511, 9563, 9613, 9659, 9703, 9744,
    9781, 9816, 9848, 9877, 9903, 9925, 9945, 9962, 9976, 9986, 9994, 9998, 10000 >>

\* sin of an angle in 0..90000 milli-degrees, linear between table entries
SinQuadrant(m) ==
    LET d == m \div 1000
        f == m % 1000
    IN IF d >= 90 THEN SinTable[91]
       ELSE SinTable[d + 1] + ((SinTable[d + 2] - SinTable[d + 1]) * f) \div 1000

\* math.sin of an angle given in milli-degrees (any sign), in ten-thousandths
Sin(mdeg) ==
    LET a == mdeg % 360000
    IN IF a <= 90000 THEN SinQuadrant(a)
       ELSE IF a <= 180000 THEN SinQuadrant(180000 - a)
       ELSE IF a <= 270000 THEN -SinQuadrant(a - 180000)
       ELSE -SinQuadrant(360000 - a)

\* math.cos of an angle given in milli-degrees, in ten-thousandths
Cos(mdeg) == Sin(mdeg + 90000)

\* ------------------------------------------------------------------------
\* Configuration (src/app.py lines 44-55)
\* ------------------------------------------------------------------------
Domain == [lat_min |-> 22500000, lat_max |-> 26000000,
           lon_min |-> 56500000, lon_max |-> 60500000]

DT_SECONDS == 600

SAMPLE_EVERY_STEPS == 3

\* ------------------------------------------------------------------------
\* SyntheticFields (src/app.py lines 124-157)
\* ------------------------------------------------------------------------
\* 2*pi*(x - lo)/(hi - lo + 1e-9) as an angle in milli-degrees; the 1e-9
\* degree added to the extent is below the resolution of the model
TurnAngle(x, lo, hi) == Quot(360 * (x - lo), (hi - lo) \div 1000)

\* 2*pi*tsec/86400 as an angle in milli-degrees
DayAngle(tsec) == Quot(25 * tsec, 6)

uv_current(lat, lon, tsec) ==
    IF lat = NaN \/ lon = NaN THEN [u |-> NaN, v |-> NaN] ELSE
    LET ay == TurnAngle(lat, Domain.lat_min, Domain.lat_max)
        ax == TurnAngle(lon, Domain.lon_min, Domain.lon_max)
        at == DayAngle(tsec)
        gu == Quot(250 * Quot(Sin(ax) * Cos(ay), 10000), 100)
        gv == Quot(250 * Quot(-(Cos(ax) * Sin(ay)), 10000), 100)
        u0 == Quot(gu * (10000 + Quot(Sin(at), 10)), 1000000)
        v0 == Quot(gv * (10000 + Quot(Cos(at), 10)), 1000000)
    IN [u |-> u0 + Quot(50 * Cos(ay), 10000), v |-> v0]

uv_wind10m(lat, lon, tsec) ==
    LET speed == 4000 + Quot(1000 * Sin(DayAngle(tsec)), 10000)
    IN [u |-> Quot(speed * Cos(60000), 10000),
        v |-> Quot(speed * Sin(60000), 10000)]

\* ------------------------------------------------------------------------
\* Grid interpolation (src/app.py lines 162-195)
\* ------------------------------------------------------------------------
\* A grid arr2d is a sequence of rows (ny of them), each a sequence of nx
\* values; x and y are fractional indices in hundredths of a cell.  Indices
\* are 0-based as in the program; the sequences are read at index + 1.
GridAt(arr2d, iy, ix) == arr2d[iy + 1][ix + 1]

\* The sum of line 175, q11*(1-dx)*(1-dy) + q21*dx*(1-dy) + q12*(1-dx)*dy
\* + q22*dx*dy, with its terms collected by row: row0 is q11*(1-dx) + q21*dx
\* and row1 is q12*(1-dx) + q22*dx, and the sum is row0*(1-dy) + row1*dy.
\* An index far outside the grid has both its corners clamped onto the same
\* row or column, so that its large dx or dy multiplies a difference of 0.
\* A NaN in any of the four corners makes the sum NaN, whatever its weight.
bilinear_interpolate(arr2d, x, y) ==
    LET nx == Len(arr2d[1])
        ny == Len(arr2d)
        x0 == clamp(x \div 100, 0, nx - 1)
        x1 == clamp(x \div 100 + 1, 0, nx - 1)
        y0 == clamp(y \div 100, 0, ny - 1)
        y1 == clamp(y \div 100 + 1, 0, ny - 1)
        q11 == GridAt(arr2d, y0, x0)
        q21 == GridAt(arr2d, y0, x1)
        q12 == GridAt(arr2d, y1, x0)
        q22 == GridAt(arr2d, y1, x1)
        dx == x - 100 * x0
        dy == y - 100 * y0
        row0 == 100 * q11 + (q21 - q11) * dx
        row1 == 100 * q12 + (q22 - q12) * dx
    IN IF HasNaN(<<q11, q21, q12, q22>>) THEN NaN
       ELSE Quot(100 * row0 + (row1 - row0) * dy, 10000)

\* np.searchsorted(arr, x), side left, of an increasing array: the number of
\* elements below x; NumPy orders a NaN after every number
searchsorted(arr, x) ==
    IF x = NaN THEN Len(arr)
    ELSE Cardinality({i \in 1..Len(arr) : arr[i] < x})

\* the fractional index ix + (c - cs[ix]) / max(cs[ix+1] - cs[ix], 1e-9), in
\* hundredths of a cell.  With a spacing of zero or less the divisor is
\* 1e-9 degree: a micro-degree of distance is 1000 cells.
FracIndex(cs, i, c) ==
    LET spacing == cs[i + 2] - cs[i + 1]
    IN IF c = NaN THEN NaN
       ELSE IF spacing > 0 THEN 100 * i + Quot(100 * (c - cs[i + 1]), spacing)
       ELSE 100 * i + 100000 * (c - cs[i + 1])

\* What sample_from_dataset does: [ok |-> TRUE, val |-> the sample], or
\* [ok |-> FALSE] with val 0 when it raises.  It raises when the lazy read of
\* the variable fails (readable = FALSE), when tindex is no time slice of
\* the variable (a negative index counts from the end, as in Python), and
\* when lats[iy+1] or lons[ix+1] is read off the end of a coordinate array
\* of fewer than two points, and when lat or lon is NaN: the fractional
\* index is then NaN and int(np.floor(x)) of line 167 raises ValueError.
Raised == [ok |-> FALSE, val |-> 0]

sample_from_dataset(ds, varname, lat, lon, tindex, readable) ==
    IF ~readable \/ tindex >= Len(ds.vars[varname])
                 \/ tindex < -Len(ds.vars[varname]) THEN Raised
    ELSE LET lats == ds.lats
             lons == ds.lons
             iy == clamp(searchsorted(lats, lat) - 1, 0, Len(lats) - 2)
             ix == clamp(searchsorted(lons, lon) - 1, 0, Len(lons) - 2)
         IN IF iy + 2 > Len(lats) \/ ix + 2 > Len(lons) THEN Raised
            ELSE IF lat = NaN \/ lon = NaN THEN Raised
            ELSE [ok |-> TRUE,
                  val |-> bilinear_interpolate(
                              ds.vars[varname][(tindex % Len(ds.vars[varname])) + 1],
                                               FracIndex(lons, ix, lon),
                                               FracIndex(lats, iy, lat))]

\* ------------------------------------------------------------------------
\* Dataset loading (src/app.py lines 89-121)
\* ------------------------------------------------------------------------
\* A resource file is [exists, opens, names, lats, lons, vars]: whether the
\* file is there, whether xr.open_dataset succeeds on it, the names of its
\* variables and coordinates, its coordinate arrays and, per variable, the
\* sequence of its time slices.  A loaded dataset keeps lats, lons and vars.
NoDataset(names) ==
    [loaded |-> FALSE, lats |-> << >>, lons |-> << >>,
     vars |-> [nm \in names |-> << >>]]

Opened(file) ==
    [loaded |-> TRUE, lats |-> file.lats, lons |-> file.lons, vars |-> file.vars]

\* load_ecco_uv without the check of the names
load_ecco_uv_unchecked(xr, file) ==
    IF xr /\ file.exists /\ file.opens THEN Opened(file) ELSE NoDataset({"u", "v"})

load_ecco_uv(xr, file) ==
    IF ~xr THEN NoDataset({"u", "v"})
    ELSE IF file.exists
         THEN IF file.opens /\ {"u", "v", "lat", "lon", "time"} \subseteq file.names
              THEN Opened(file)
              ELSE NoDataset({"u", "v"})
         ELSE NoDataset({"u", "v"})

load_merra2_wind(xr, file) ==
    IF ~xr THEN NoDataset({"u10", "v10"})
    ELSE IF file.exists
         THEN IF file.opens /\ {"u10", "v10", "lat", "lon", "time"} \subseteq file.names
              THEN Opened(file)
              ELSE NoDataset({"u10", "v10"})
         ELSE NoDataset({"u10", "v10"})

\* ------------------------------------------------------------------------
\* FieldProvider (src/app.py lines 197-230)
\* ------------------------------------------------------------------------
\* FieldProvider.__init__
FieldProvider(xr, eccoFile, merraFile) ==
    [ds_ecco |-> load_ecco_uv(xr, eccoFile),
     ds_merra |-> load_merra2_wind(xr, merraFile),
     tidx_ecco |-> 0,
     tidx_merra |-> 0]

\* A provider whose query moves the time index of the ocean dataset on
ProviderAdvancingTime(F) == [F EXCEPT !.tidx_ecco = F.tidx_ecco + 1]

\* The provider as a call of current_uv or wind10m_uv leaves it: neither
\* method assigns to self.
ProviderAfterQuery(F) == F

\* A field query returns [raised, u, v]: raised is TRUE when an exception
\* leaves the method.  Both methods catch every Exception of the sampling
\* and then return the synthetic field.
Returned(uv) == [raised |-> FALSE, u |-> uv.u, v |-> uv.v]

\* Each method makes two reads of the file, one per component, and the
\* file can change between them; readable is the state of the file at the
\* read.  The first part of a method is [more, u, ret]: more = TRUE when
\* the first component u was read and the second read follows, otherwise
\* ret is what the method returns.
\*
\* current_uv up to its first read (lines 209-213): with no dataset it
\* returns the synthetic field; with one it reads u, and when the read
\* raises it returns the synthetic field without reading v
current_uv_u(F, lat, lon, tsec, readable) ==
    LET su == sample_from_dataset(F.ds_ecco, "u", lat, lon, F.tidx_ecco, readable)
    IN IF F.ds_ecco.loaded /\ su.ok
       THEN [more |-> TRUE, u |-> su.val, ret |-> Returned([u |-> 0, v |-> 0])]
       ELSE [more |-> FALSE, u |-> 0, ret |-> Returned(uv_current(lat, lon, tsec))]

\* current_uv from its second read (lines 214-218), u being the first
\* component as read: it reads v and returns (u, v), or the synthetic
\* field when the read raises
current_uv_v(F, u, lat, lon, tsec, readable) ==
    LET sv == sample_from_dataset(F.ds_ecco, "v", lat, lon, F.tidx_ecco, readable)
    IN IF sv.ok THEN Returned([u |-> u, v |-> sv.val])
       ELSE Returned(uv_current(lat, lon, tsec))

\* wind10m_uv up to its first read (lines 220-223)
wind10m_uv_u10(F, lat, lon, tsec, readable) ==
    LET su == sample_from_dataset(F.ds_merra, "u10", lat, lon, F.tidx_merra, readable)
    IN IF F.ds_merra.loaded /\ su.ok
       THEN [more |-> TRUE, u |-> su.val, ret |-> Returned([u |-> 0, v |-> 0])]
       ELSE [more |-> FALSE, u |-> 0, ret |-> Returned(uv_wind10m(lat, lon, tsec))]

\* wind10m_uv from its second read (lines 224-228)
wind10m_uv_v10(F, u, lat, lon, tsec, readable) ==
    LET sv == sample_from_dataset(F.ds_merra, "v10", lat, lon, F.tidx_merra, readable)
    IN IF sv.ok THEN Returned([u |-> u, v |-> sv.val])
       ELSE Returned(uv_wind10m(lat, lon, tsec))

\* ------------------------------------------------------------------------
\* The random generator (src/app.py lines 69-73)
\* ------------------------------------------------------------------------
\* seed_rng seeding from the clock whatever the argument
seed_rng_clock(seed, now) == now

\* A seed argument is [given, value]: given = FALSE is seed=None.  now is
\* int(time.time()*1000); the mask 0xffffffff leaves the clock readings of
\* the model as they are.
seed_rng(seed, now) == IF seed.given THEN seed.value ELSE now


\* The first 24 standard normal variates of np.random.default_rng(seed), in
\* thousandths, for the seeds of the model: 42 (0.30471708, -1.03998411,
\* 0.7504512, ...), and the clock readings 7 (0.00123015, ...) and 8
\* (-1.7382664, ...)
Seed42Stream ==
    <<305, -1040, 750, 941, -1951, -1302, 128, -316, -17, -853, 879, 778,
      66, 1127, 468, -859, 369, -959, 878, -50, -185, -681, 1223, -155>>

Seed7Stream ==
    <<1, 299, -274, -891, -455, -992, 60, 1340, -492, -620, 490, 357,
      105, -930, -29, 695, -1344, -458, -1901, -1290, -1842, -235, -1267, 271>>

Seed8Stream ==
    <<-1738, -1337, -1361, -352, -2313, -189, -957, 894, 957, 1392, 767, -53,
      860, 1505, -654, 610, -43, 1440, -837, -302, 362, 258, -1639, 360>>

\* The i-th standard normal variate (i = 0, 1, ...) of the generator seeded
\* with seed, in thousandths: a fixed function of seed and i
Variate(seed, i) ==
    CASE seed = 42 -> Seed42Stream[i + 1]
      [] seed = 7 -> Seed7Stream[i + 1]
      [] seed = 8 -> Seed8Stream[i + 1]

\* loc + scale * variate with loc = 0: sigma >= 0 times a variate v in
\* thousandths, in the unit of sigma
Scaled(sigma, v) == (sigma \div 1000) * v + Quot((sigma % 1000) * v, 1000)

\* rng.normal(0.0, sigma, size=n) as the generator has drawn `drawn` variates
NormalDraw(seed, drawn, sigma, n) ==
    [i \in 1..n |-> Scaled(sigma, Variate(seed, drawn + i - 1))]

\* ------------------------------------------------------------------------
\* simulate_particles (src/app.py lines 233-307)
\* ------------------------------------------------------------------------
\* float(np.mean(a)) of a non-empty array
Mean(a) == IF HasNaN(a) THEN NaN ELSE Quot(SumSeq(a), Len(a))

\* steps = int(abs(hours*3600/DT_SECONDS)), hours given in minutes
StepCount(minutes) == Abs(60 * minutes) \div DT_SECONDS

\* StepDt without the sign of the direction
StepDtForward(backward) == DT_SECONDS

\* dt_sec = -DT_SECONDS if backward else DT_SECONDS (line 253)
StepDt(backward) == IF backward THEN -DT_SECONDS ELSE DT_SECONDS

\* sigma = math.sqrt(max(2.0*diff_m2s*abs(dt_sec), 1e-12)), in micro-metres:
\* the floor 1e-12 m^2 under the root is a floor of 1e-6 m on sigma
Sigma(diff, dt_sec) == Max(1000 * ISqrt(2 * diff * Abs(dt_sec) * 1000), 1)

meters_to_deg_lat(d) == IF d = NaN THEN NaN ELSE Quot(d, 111000)

\* The integers of the model end at 2^31: a displacement of FarAway
\* micro-degrees (2000 degrees) or more is kept as FarAway.  The program
\* adds the displacement to a longitude and clips the sum to the Domain,
\* which brings either onto the same edge.
FarAway == 2000000000

\* floor(a * 10^k / b) for a >= 0 and 0 < b < 2^31 / 10, by long division,
\* q and r being the quotient and remainder so far; FarAway at most
RECURSIVE LongDiv(_, _, _, _)
LongDiv(q, r, b, k) ==
    IF k = 0 THEN Min(q, FarAway)
    ELSE IF q > FarAway \div 10 THEN FarAway
    ELSE LongDiv(q * 10 + (r * 10) \div b, (r * 10) % b, b, k - 1)

\* an angle in micro-degrees brought into -180..180 degrees
WrapDegrees(a) == ((a + 180000000) % 360000000) - 180000000

\* meters_per_deg_lat*cos(radians(lat_)) + 1e-9, the denominator of line
\* 259, as [den, digits]: den * 10^-digits metres per degree.  Within one
\* degree of a pole the cosine is the sine of delta = 90 - |lat_| degrees,
\* which is delta in radians to 5e-5: 111000 m times it is 1.937315e-3 m
\* per micro-degree of delta, negative beyond the pole.  On the pole the
\* float cosine is 6.1e-17 and the denominator 1.0068e-9 m, here in
\* picometres; within 1e-4 degree the denominator is in nanometres and the
\* 1e-9 m is 1 nm; within 0.1 degree it is in micro-metres and elsewhere in
\* millimetres, where the 1e-9 m is below the resolution.
LonDenominator(lat_) ==
    LET delta == 90000000 - Abs(WrapDegrees(lat_))
    IN IF delta = 0
       THEN [den |-> 1007, digits |-> 12]
       ELSE IF Abs(delta) <= 100
       THEN [den |-> delta * 1937315 + 1, digits |-> 9]
       ELSE IF Abs(delta) <= 100000
       THEN [den |-> delta * 1937 + Quot(delta * 315, 1000), digits |-> 6]
       ELSE IF Abs(delta) <= 1000000
       THEN [den |-> Quot(delta * 1937, 1000) + Quot(delta * 315, 1000000),
             digits |-> 3]
       ELSE [den |-> Quot(111000 * Cos(Quot(lat_, 1000)), 10), digits |-> 3]

\* d/(meters_per_deg_lat*cos(radians(lat_)) + 1e-9): micro-metres over
\* metres per degree are micro-degrees.  A denominator of zero is the
\* program dividing by zero; ProbeConversion reports it and the value is
\* then FarAway.
meters_to_deg_lon(d, lat_) ==
    IF d = NaN \/ lat_ = NaN THEN NaN ELSE
    LET D == LonDenominator(lat_)
        q == IF D.den = 0 THEN FarAway
             ELSE LongDiv(Abs(d) \div Abs(D.den), Abs(d) % Abs(D.den),
                          Abs(D.den), D.digits)
    IN IF (d < 0) = (D.den < 0) THEN q ELSE -q

\* np.clip(a, lo, hi) of one element: np.minimum and np.maximum hand a NaN
\* through, so that a NaN particle stays NaN
Clip(x, lo, hi) == IF x = NaN THEN NaN ELSE clamp(x, lo, hi)

\* The particle arrays after the initial jitter (lines 249-250)
InitialLat(lat0, n, seed) ==
    [i \in 1..n |-> Add(lat0, NormalDraw(seed, 0, 1000, n)[i])]

InitialLon(lon0, n, seed) ==
    [i \in 1..n |-> Add(lon0, NormalDraw(seed, n, 1000, n)[i])]

\* The centroid appended to mean_track (line 298)
Centroid(lon, lat) == [lon |-> Mean(lon), lat |-> Mean(lat)]

\* FinalTrack with the coordinates of the release point in the order (lat, lon)
FinalTrackLatLon(mean_track, lat0, lon0) ==
    IF mean_track = << >> THEN << [lon |-> lat0, lat |-> lon0] >> ELSE mean_track

\* FinalTrack starting every track at the release point
FinalTrackFromRelease(mean_track, lat0, lon0) ==
    << [lon |-> lon0, lat |-> lat0] >> \o mean_track

\* mean_track as returned (lines 300-301)
FinalTrack(mean_track, lat0, lon0) ==
    IF mean_track = << >> THEN << [lon |-> lon0, lat |-> lat0] >> ELSE mean_track

\* list(zip(lon.tolist(), lat.tolist()))
Cloud(lon, lat) == [i \in 1..Len(lon) |-> [lon |-> lon[i], lat |-> lat[i]]]

\* The positions of a call inside the field queries of a particle: before
\* the call of current_uv, between its two reads, before the call of
\* wind10m_uv, between its two reads
Querying == {"query", "current_v", "wind", "wind_v"}

\* The locals of a call that has not started
IdleSim ==
    [pc |-> "idle", raisedAt |-> "", seedArg |-> [given |-> FALSE, value |-> 0],
     seed |-> 0,
     steps |-> 0, dt_sec |-> 0,
     lat |-> << >>, lon |-> << >>, k |-> 0, qi |-> 0,
     uc |-> 0, vc |-> 0, uw |-> 0,
     u_c |-> << >>, v_c |-> << >>, u_w |-> << >>, v_w |-> << >>,
     dx_rand |-> << >>, dy_rand |-> << >>,
     mean_track |-> << >>, sample_accum |-> 0, drawn |-> 0,
     defaulted |-> FALSE,
     result |-> [mean_track |-> << >>, final_cloud |-> << >>]]

\* The call as it returns (lines 300-307).  Line 301 rebinds the local
\* mean_track to the track that is returned; defaulted records that the
\* branch of line 300 was taken.
Return(S, Q) ==
    LET track == FinalTrack(S.mean_track, Q.lat0, Q.lon0)
    IN [S EXCEPT !.pc = "done",
                 !.defaulted = (S.mean_track = << >>),
                 !.mean_track = track,
                 !.result = [mean_track |-> track,
                             final_cloud |-> Cloud(S.lon, S.lat)]]

\* u_c, v_c, u_w, v_w = np.zeros(n) at the top of a pass of the loop (lines
\* 267-268)
Zeroed(S, n) ==
    [S EXCEPT !.u_c = [i \in 1..n |-> 0], !.v_c = [i \in 1..n |-> 0],
              !.u_w = [i \in 1..n |-> 0], !.v_w = [i \in 1..n |-> 0]]

\* Lines 246-268 up to the queries of the first pass of the loop: the
\* generator is seeded, the particles are created (np.full raises ValueError
\* for n < 0), the step count and the signed step are set.  With no step to
\* run the call returns, the sample arrays never having been made.
\* Q is the request [lat0, lon0, minutes, n, windage, diff, backward].
Begin(Q, seedArg, now) ==
    LET seed == seed_rng(seedArg, now)
        S0 == [IdleSim EXCEPT !.seedArg = seedArg, !.seed = seed]
    IN IF Q.n < 0 THEN [S0 EXCEPT !.pc = "raised", !.raisedAt = "np.full"]
       ELSE LET S1 == [S0 EXCEPT !.lat = InitialLat(Q.lat0, Q.n, seed),
                                 !.lon = InitialLon(Q.lon0, Q.n, seed),
                                 !.drawn = 2 * Q.n,
                                 !.steps = StepCount(Q.minutes),
                                 !.dt_sec = StepDt(Q.backward),
                                 !.qi = 1]
            IN IF S1.steps = 0 THEN Return(S1, Q)
               ELSE [Zeroed(S1, Q.n) EXCEPT
                        !.pc = IF Q.n = 0 THEN "advance" ELSE "query"]

\* Line 270 for particle S.qi of step S.k as current_uv returns cur, kept
\* in the locals uc, vc.  An exception leaving a query leaves
\* simulate_particles too.
SampledCurrent(S, cur) ==
    IF cur.raised
    THEN [S EXCEPT !.pc = "raised", !.raisedAt = "query"]
    ELSE [S EXCEPT !.uc = cur.u, !.vc = cur.v, !.pc = "wind"]

\* Lines 271-273 for particle S.qi of step S.k as wind10m_uv returns wind:
\* the four samples are stored
SampledWind(S, Q, wind) ==
    IF wind.raised
    THEN [S EXCEPT !.pc = "raised", !.raisedAt = "query"]
    ELSE [S EXCEPT !.uw = wind.u,
                   !.u_c[S.qi] = S.uc, !.v_c[S.qi] = S.vc,
                   !.u_w[S.qi] = wind.u, !.v_w[S.qi] = wind.v,
                   !.qi = S.qi + 1,
                   !.pc = IF S.qi = Q.n THEN "advance" ELSE "query"]

\* FIELDS.current_uv(lat[i], lon[i], tsec) of line 270 for particle S.qi,
\* up to its first read.  Between the two reads the u read is held in uc
\* and the call stands at "current_v".
CurrentReadU(S, F, rd) ==
    LET first == current_uv_u(F, S.lat[S.qi], S.lon[S.qi], S.k * S.dt_sec, rd)
    IN IF first.more
       THEN [S EXCEPT !.uc = first.u, !.pc = "current_v"]
       ELSE SampledCurrent(S, first.ret)

\* The same call of current_uv from its second read
CurrentReadV(S, F, rd) ==
    SampledCurrent(S, current_uv_v(F, S.uc, S.lat[S.qi], S.lon[S.qi],
                                   S.k * S.dt_sec, rd))

\* FIELDS.wind10m_uv(lat[i], lon[i], tsec) of line 271 up to its first
\* read; between the two reads the u10 read is held in uw and the call
\* stands at "wind_v"
WindReadU(S, Q, F, rd) ==
    LET first == wind10m_uv_u10(F, S.lat[S.qi], S.lon[S.qi], S.k * S.dt_sec, rd)
    IN IF first.more
       THEN [S EXCEPT !.uw = first.u, !.pc = "wind_v"]
       ELSE SampledWind(S, Q, first.ret)

\* The same call of wind10m_uv from its second read, and lines 272-273
WindReadV(S, Q, F, rd) ==
    SampledWind(S, Q, wind10m_uv_v10(F, S.uw, S.lat[S.qi], S.lon[S.qi],
                                     S.k * S.dt_sec, rd))

\* Whether meters_to_deg_lon(u*dt_sec + dx_rand, lat) of line 287 returns:
\* it passes the whole array lat to math.radians, which needs a float.  An
\* array of any size but one raises TypeError.  An array of one element is
\* converted by a NumPy that still allows it (size1: the conversion is
\* deprecated since NumPy 1.25) and raises TypeError otherwise.
RadiansAccepts(n, size1) == n = 1 /\ size1

\* SampleDue with > for >=
SampleDueLate(sample_accum) == sample_accum + 1 > SAMPLE_EVERY_STEPS

\* Lines 295-296: sample_accum += 1; if sample_accum >= SAMPLE_EVERY_STEPS
SampleDue(sample_accum) == sample_accum + 1 >= SAMPLE_EVERY_STEPS

\* u*dt_sec of line 287 (v*dt_sec of line 288), in micro-metres
Advection(u, dt_sec) == IF u = NaN THEN NaN ELSE u * dt_sec * 1000

\* windage*u_w of line 276 (windage*v_w of line 277)
Windage(windage, u_w) == IF u_w = NaN THEN NaN ELSE Quot(windage * u_w, 1000)

\* Lines 276-298: the rest of step S.k once every particle is sampled.
\* sigma and the two draws of lines 281-283 come before line 287.  After
\* the last step the call returns, the sample arrays holding the samples of
\* that step; otherwise the next pass begins and makes them anew (lines
\* 264-268).
Advanced(S, Q, size1) ==
    LET n == Q.n
        u == [i \in 1..n |-> Add(S.u_c[i], Windage(Q.windage, S.u_w[i]))]
        v == [i \in 1..n |-> Add(S.v_c[i], Windage(Q.windage, S.v_w[i]))]
        sigma == Sigma(Q.diff, S.dt_sec)
        dx == NormalDraw(S.seed, S.drawn, sigma, n)
        dy == NormalDraw(S.seed, S.drawn + n, sigma, n)
        lon1 == [i \in 1..n |->
                   Add(S.lon[i],
                       meters_to_deg_lon(Add(Advection(u[i], S.dt_sec), dx[i]),
                                         S.lat[i]))]
        lat1 == [i \in 1..n |->
                   Add(S.lat[i],
                       meters_to_deg_lat(Add(Advection(v[i], S.dt_sec), dy[i])))]
        lat2 == [i \in 1..n |-> Clip(lat1[i], Domain.lat_min, Domain.lat_max)]
        lon2 == [i \in 1..n |-> Clip(lon1[i], Domain.lon_min, Domain.lon_max)]
        sampled == SampleDue(S.sample_accum)
        S1 == [S EXCEPT !.lat = lat2, !.lon = lon2,
                        !.dx_rand = dx, !.dy_rand = dy,
                        !.drawn = S.drawn + 2 * n,
                        !.sample_accum = IF sampled THEN 0 ELSE S.sample_accum + 1,
                        !.mean_track = IF sampled
                                       THEN Append(S.mean_track, Centroid(lon2, lat2))
                                       ELSE S.mean_track,
                        !.k = S.k + 1, !.qi = 1]
    IN IF ~RadiansAccepts(n, size1)
       THEN [S EXCEPT !.pc = "raised", !.raisedAt = "line 287",
                      !.dx_rand = dx, !.dy_rand = dy,
                      !.drawn = S.drawn + 2 * n]
       ELSE IF S1.k = S1.steps THEN Return(S1, Q)
       ELSE [Zeroed(S1, n) EXCEPT !.pc = "query"]

\* ------------------------------------------------------------------------
\* Inputs of the model
\* ------------------------------------------------------------------------
MaxParticles == 2

MaxFlips == 1

Runs == {"a", "b"}

\* the default release point, and one just outside the north-west corner
ReleasePoints ==
    {[lat |-> 23600000, lon |-> 58500000], [lat |-> 26000500, lon |-> 56499000]}

\* hours -1/3, 0, 1/12 and 1/2: 2, 0, 0 and 3 steps
Horizons == {-20, 0, 5, 30}

\* the defaults of the interface (windage 0.02, diffusivity 0.5), and neither
Physics == {[windage |-> 20, diff |-> 500], [windage |-> 0, diff |-> 0]}

GeneralRequests ==
    {[lat0 |-> p.lat, lon0 |-> p.lon, minutes |-> m, n |-> n,
      windage |-> c.windage, diff |-> c.diff, backward |-> b] :
        p \in ReleasePoints, m \in Horizons, n \in -1..MaxParticles,
        c \in Physics, b \in BOOLEAN}

\* the concrete scenario of the specification: one hour (6 steps) from the
\* default release point, windage 0, diffusivity 0, run with no dataset
\* loaded
ScenarioRequests ==
    {[lat0 |-> 23600000, lon0 |-> 58500000, minutes |-> 60, n |-> n,
      windage |-> 0, diff |-> 0, backward |-> b] :
        n \in 1..MaxParticles, b \in BOOLEAN}

\* 20 and 40 minutes (2 steps, and 4: one more than a multiple of
\* SAMPLE_EVERY_STEPS) with the defaults of the interface, from the default
\* release point and from the north-east corner of the Domain
EdgeRequests ==
    {[lat0 |-> p.lat, lon0 |-> p.lon, minutes |-> m, n |-> 1,
      windage |-> 20, diff |-> 500, backward |-> FALSE] :
        p \in {[lat |-> 23600000, lon |-> 58500000],
               [lat |-> Domain.lat_max, lon |-> Domain.lon_max]},
        m \in {20, 40}}

\* a release latitude that is not a number, as GET /simulate/forward?lat=nan
\* passes it (parse_float, lines 403-405, and api_forward): half an hour, 3
\* steps, with the defaults of the interface
NaNRequests ==
    {[lat0 |-> NaN, lon0 |-> 58500000, minutes |-> 30, n |-> 1,
      windage |-> 20, diff |-> 500, backward |-> FALSE]}

Requests ==
    GeneralRequests \cup ScenarioRequests \cup EdgeRequests \cup NaNRequests

\* the requests made while a dataset is loaded, all with the defaults of
\* the interface for windage and diffusivity: forward from the default
\* release point over a horizon that is not negative; backward from it
\* with one particle over 20 minutes; 20 minutes from the north-east corner
\* of the Domain; and the release latitude that is not a number
DatasetRequests ==
    {Q \in GeneralRequests :
        /\ Q.windage = 20 /\ Q.diff = 500
        /\ Q.lat0 = 23600000 /\ Q.lon0 = 58500000
        /\ \/ ~Q.backward /\ Q.minutes >= 0
           \/ Q.backward /\ Q.minutes = -20 /\ Q.n = 1}
    \cup {Q \in EdgeRequests : Q.lat0 = Domain.lat_max /\ Q.minutes = 20}
    \cup NaNRequests

SeedArgs == {[given |-> FALSE, value |-> 0], [given |-> TRUE, value |-> 42]}

\* int(time.time()*1000) as each call reads it: the clock has moved on
\* between the first call and the second
Clock == [a |-> 7, b |-> 8]

EccoContent ==
    [exists |-> TRUE, opens |-> TRUE,
     names |-> {"u", "v", "lat", "lon", "time"},
     lats |-> <<22500000, 24000000, 26000000>>,
     lons |-> <<56500000, 60500000>>,
     vars |-> [nm \in {"u", "v"} |->
                 IF nm = "u"
                 THEN << << <<100, 300>>, <<-200, 400>>, <<-1500, 900>> >>,
                         << <<0, 0>>, <<50, 50>>, <<0, 0>> >> >>
                 ELSE << << <<-50, 250>>, <<600, -300>>, <<2000, 1200>> >>,
                         << <<10, 10>>, <<0, 0>>, <<-10, -10>> >> >>]]

MerraContent ==
    [exists |-> TRUE, opens |-> TRUE,
     names |-> {"u10", "v10", "lat", "lon", "time"},
     lats |-> <<22500000, 26000000>>,
     lons |-> <<56500000, 58500000, 60500000>>,
     vars |-> [nm \in {"u10", "v10"} |->
                 IF nm = "u10"
                 THEN << << <<3000, 5000, 4000>>, <<-2000, 1000, 6000>> >> >>
                 ELSE << << <<1000, -1000, 2000>>, <<4000, 3000, -5000>> >> >>]]

Absent(file) == [file EXCEPT !.exists = FALSE]

Unopenable(file) == [file EXCEPT !.opens = FALSE]

Without(file, name) == [file EXCEPT !.names = @ \ {name}]

EccoFiles == {EccoContent, Absent(EccoContent), Unopenable(EccoContent),
              Without(EccoContent, "v"), Without(EccoContent, "time")}

MerraFiles == {MerraContent, Absent(MerraContent), Unopenable(MerraContent),
               Without(MerraContent, "u10"), Without(MerraContent, "lat")}

\* what the loaders find as the process starts: no file, the ocean file
\* alone, both files
Files ==
    {[ecco |-> Absent(EccoContent), merra |-> Absent(MerraContent)],
     [ecco |-> EccoContent, merra |-> Absent(MerraContent)],
     [ecco |-> EccoContent, merra |-> MerraContent]}

\* the installed libraries and the files: xr, whether import xarray
\* succeeded; size1, whether NumPy converts a one-element array to a float
LoaderEnvs ==
    {[xr |-> TRUE, size1 |-> c, ecco |-> f.ecco, merra |-> f.merra] :
        c \in BOOLEAN, f \in Files}

\* ------------------------------------------------------------------------
\* State
\* ------------------------------------------------------------------------
VARIABLES
    env,        \* the libraries and files of the process: [xr, size1, ecco, merra]
    fields,     \* FIELDS, the process-wide FieldProvider
    readable,   \* whether a lazy read of the dataset files succeeds now
    ioFlips,    \* how often readable has changed
    req,        \* the request both calls are made with
    sim,        \* per call of simulate_particles: its position and locals
    fellBack,   \* per call: a query of it fell back from a loaded dataset
    probe       \* the last direct call of a pure function and its result

vars == <<env, fields, readable, ioFlips, req, sim, fellBack, probe>>

NoProbe == [kind |-> "none"]

\* The process after import: FIELDS is constructed from what the loaders
\* find, no request has arrived.  The files of a loaded dataset may by then
\* be unreadable.
Init ==
    /\ env \in LoaderEnvs
    /\ fields = FieldProvider(env.xr, env.ecco, env.merra)
    /\ readable \in IF fields.ds_ecco.loaded \/ fields.ds_merra.loaded
                    THEN BOOLEAN ELSE {TRUE}
    /\ ioFlips = 0
    /\ req \in IF fields.ds_ecco.loaded \/ fields.ds_merra.loaded
               THEN DatasetRequests ELSE Requests
    /\ sim = [r \in Runs |-> IdleSim]
    /\ fellBack = [r \in Runs |-> FALSE]
    /\ probe = NoProbe

\* A call simulate_particles(lat0, lon0, hours, n, windage, diff_m2s,
\* backward, seed) is made; "a" names the call that is made first
Start(r) ==
    /\ sim[r].pc = "idle"
    /\ r = "b" => sim["a"].pc # "idle"
    /\ \E seedArg \in SeedArgs :
          sim' = [sim EXCEPT ![r] = Begin(req, seedArg, Clock[r])]
    /\ UNCHANGED <<env, fields, readable, ioFlips, req, fellBack, probe>>

\* Whether the read of variable name of a loaded dataset fails now
FallsBack(ds, name, tidx, lat, lon) ==
    ds.loaded /\ ~sample_from_dataset(ds, name, lat, lon, tidx, readable).ok

\* Call r calls FIELDS.current_uv for its next particle (line 270), which
\* makes its first read
QueryCurrentU(r) ==
    /\ sim[r].pc = "query"
    /\ LET S == sim[r]
       IN /\ sim' = [sim EXCEPT ![r] = CurrentReadU(S, fields, readable)]
          /\ fields' = ProviderAfterQuery(fields)
          /\ fellBack' = [fellBack EXCEPT ![r] =
                 @ \/ FallsBack(fields.ds_ecco, "u", fields.tidx_ecco,
                                S.lat[S.qi], S.lon[S.qi])]
    /\ UNCHANGED <<env, readable, ioFlips, req, probe>>

\* current_uv makes its second read and returns to call r
QueryCurrentV(r) ==
    /\ sim[r].pc = "current_v"
    /\ LET S == sim[r]
       IN /\ sim' = [sim EXCEPT ![r] = CurrentReadV(S, fields, readable)]
          /\ fields' = ProviderAfterQuery(fields)
          /\ fellBack' = [fellBack EXCEPT ![r] =
                 @ \/ FallsBack(fields.ds_ecco, "v", fields.tidx_ecco,
                                S.lat[S.qi], S.lon[S.qi])]
    /\ UNCHANGED <<env, readable, ioFlips, req, probe>>

\* Call r calls FIELDS.wind10m_uv for the same particle (line 271), which
\* makes its first read
QueryWindU(r) ==
    /\ sim[r].pc = "wind"
    /\ LET S == sim[r]
       IN /\ sim' = [sim EXCEPT ![r] = WindReadU(S, req, fields, readable)]
          /\ fields' = ProviderAfterQuery(fields)
          /\ fellBack' = [fellBack EXCEPT ![r] =
                 @ \/ FallsBack(fields.ds_merra, "u10", fields.tidx_merra,
                                S.lat[S.qi], S.lon[S.qi])]
    /\ UNCHANGED <<env, readable, ioFlips, req, probe>>

\* wind10m_uv makes its second read and returns to call r, which stores the
\* samples (lines 272-273)
QueryWindV(r) ==
    /\ sim[r].pc = "wind_v"
    /\ LET S == sim[r]
       IN /\ sim' = [sim EXCEPT ![r] = WindReadV(S, req, fields, readable)]
          /\ fields' = ProviderAfterQuery(fields)
          /\ fellBack' = [fellBack EXCEPT ![r] =
                 @ \/ FallsBack(fields.ds_merra, "v10", fields.tidx_merra,
                                S.lat[S.qi], S.lon[S.qi])]
    /\ UNCHANGED <<env, readable, ioFlips, req, probe>>

\* Call r finishes the step (lines 276-298); after the last one it returns
\* (lines 300-307), otherwise it begins the next pass (lines 264-268)
Advance(r) ==
    /\ sim[r].pc = "advance"
    /\ sim' = [sim EXCEPT ![r] = Advanced(sim[r], req, env.size1)]
    /\ UNCHANGED <<env, fields, readable, ioFlips, req, fellBack, probe>>

\* The positions of a client that calls the provider directly: between the
\* two reads of current_uv, between its calls of current_uv and
\* wind10m_uv, between the two reads of wind10m_uv
ProbeQuerying == {"current_v", "current", "wind_v"}

\* The dataset files become unreadable, or readable again, while a dataset
\* is loaded and a caller is about to make one of the four reads of a
\* point: xarray reads a variable's values from the file on each call of
\* sample_from_dataset (line 183)
ToggleIO ==
    /\ fields.ds_ecco.loaded \/ fields.ds_merra.loaded
    /\ \/ \E r \in Runs : sim[r].pc \in Querying
       \/ probe.kind \in ProbeQuerying
    /\ ioFlips < MaxFlips
    /\ readable' = ~readable
    /\ ioFlips' = ioFlips + 1
    /\ UNCHANGED <<env, fields, req, sim, fellBack, probe>>

Next ==
    \/ \E r \in Runs : Start(r)
    \/ \E r \in Runs : QueryCurrentU(r)
    \/ \E r \in Runs : QueryCurrentV(r)
    \/ \E r \in Runs : QueryWindU(r)
    \/ \E r \in Runs : QueryWindV(r)
    \/ \E r \in Runs : Advance(r)
    \/ ToggleIO

Spec == Init /\ [][Next]_vars

\* ------------------------------------------------------------------------
\* Properties of simulate_particles
\* ------------------------------------------------------------------------
Finished(r) == sim[r].pc \in {"done", "raised"}

InDomain(lat, lon) ==
    /\ lat # NaN /\ lon # NaN
    /\ Domain.lat_min <= lat /\ lat <= Domain.lat_max
    /\ Domain.lon_min <= lon /\ lon <= Domain.lon_max

\* A position as np.clip to the Domain leaves it (lines 291-292): clipping
\* it again changes nothing
Clamped(lat, lon) ==
    /\ Clip(lat, Domain.lat_min, Domain.lat_max) = lat
    /\ Clip(lon, Domain.lon_min, Domain.lon_max) = lon

\* C1: every call with particle_count > 0 and horizon_hours > 0, forward or
\* backward, returns a mean_track of at least one point and a final_cloud
\* of exactly particle_count points.
C1_ValidRequestReturns ==
    \A r \in Runs :
        (req.n > 0 /\ req.minutes > 0 /\ Finished(r)) =>
            /\ sim[r].pc = "done"
            /\ Len(sim[r].result.mean_track) >= 1
            /\ Len(sim[r].result.final_cloud) = req.n

\* C2: after every completed step every particle lies in the Domain,
\* whatever the fields, the draws, the release point and the direction, and
\* no particle is removed.
C2_ClampedAfterStep ==
    \A r \in Runs :
        sim[r].k >= 1 =>
            /\ Len(sim[r].lat) = req.n /\ Len(sim[r].lon) = req.n
            /\ \A i \in 1..req.n : InDomain(sim[r].lat[i], sim[r].lon[i])

\* C3: a call with particle_count <= 0 or horizon_hours <= 0 is refused: it
\* fails, creates no particle and executes no step.
C3_InvalidRequestRefused ==
    \A r \in Runs :
        ((req.n <= 0 \/ req.minutes <= 0) /\ sim[r].pc # "idle") =>
            /\ sim[r].pc = "raised"
            /\ sim[r].lat = << >> /\ sim[r].lon = << >>
            /\ sim[r].k = 0

\* C4: a query whose sampling of a loaded dataset fails returns the
\* synthetic value and raises nothing, the datasets stay loaded as they
\* were, and the call the query belongs to is not aborted: it runs its
\* remaining steps and returns.
C4_FallbackNeverAborts ==
    /\ fields = FieldProvider(env.xr, env.ecco, env.merra)
    /\ \A r \in Runs :
          /\ sim[r].raisedAt # "query"
          /\ fellBack[r] =>
                /\ sim[r].pc # "raised"
                /\ sim[r].pc = "done" => sim[r].k = sim[r].steps

\* C6: two calls with the same request and the same explicit seed, the
\* files readable throughout, end alike: both return the same mean_track and
\* final_cloud, whatever the clock reads.
C6_Deterministic ==
    (/\ Finished("a") /\ Finished("b")
     /\ sim["a"].seedArg.given /\ sim["a"].seedArg = sim["b"].seedArg
     /\ ioFlips = 0) =>
        /\ sim["a"].pc = sim["b"].pc
        /\ sim["a"].result = sim["b"].result

\* both calls have run their steps from the same seed and returned
C6_Witness ==
    /\ sim["a"].pc = "done" /\ sim["b"].pc = "done"
    /\ sim["a"].seedArg.given /\ sim["a"].seedArg = sim["b"].seedArg
    /\ ioFlips = 0
    /\ sim["a"].k >= SAMPLE_EVERY_STEPS
    /\ req.diff > 0

\* The call r driven to its end with no other call running, from the
\* provider F, the files being readable (rd) or not throughout
RECURSIVE Drive(_, _, _, _, _)
Drive(S, Q, F, size1, rd) ==
    IF S.pc = "query"
    THEN Drive(CurrentReadU(S, F, rd), Q, ProviderAfterQuery(F), size1, rd)
    ELSE IF S.pc = "current_v"
    THEN Drive(CurrentReadV(S, F, rd), Q, ProviderAfterQuery(F), size1, rd)
    ELSE IF S.pc = "wind"
    THEN Drive(WindReadU(S, Q, F, rd), Q, ProviderAfterQuery(F), size1, rd)
    ELSE IF S.pc = "wind_v"
    THEN Drive(WindReadV(S, Q, F, rd), Q, ProviderAfterQuery(F), size1, rd)
    ELSE IF S.pc = "advance" THEN Drive(Advanced(S, Q, size1), Q, F, size1, rd)
    ELSE S

Alone(r) ==
    Drive(Begin(req, sim[r].seedArg, sim[r].seed),
          req, FieldProvider(env.xr, env.ecco, env.merra), env.size1, readable)

\* C7: no field query changes the provider, and a call that runs
\* interleaved with another ends with the samples, the particles and the
\* result it ends with when it runs alone.
C7_ConcurrentQueriesSafe ==
    /\ fields = FieldProvider(env.xr, env.ecco, env.merra)
    /\ \A r \in Runs : (Finished(r) /\ ioFlips = 0) => sim[r] = Alone(r)

\* two calls have queried a loaded dataset in turns and both returned
C7_Witness ==
    /\ sim["a"].pc = "done" /\ sim["b"].pc = "done"
    /\ sim["a"].k >= 2 /\ sim["b"].k >= 2
    /\ sim["a"].seed # sim["b"].seed
    /\ fields.ds_ecco.loaded
    /\ ioFlips = 0

\* C8: a call that returns with a step count of 0 returns the one-point
\* mean_track [(lon0, lat0)], the release point without jitter.
C8_ZeroHorizonTrack ==
    \A r \in Runs :
        (sim[r].pc = "done" /\ sim[r].steps = 0) =>
            sim[r].result.mean_track = << [lon |-> req.lon0, lat |-> req.lat0] >>

\* a call with a horizon of 5 minutes returned, its particle off the
\* release point
C8_Witness ==
    \E r \in Runs :
        /\ sim[r].pc = "done" /\ sim[r].steps = 0 /\ req.minutes > 0
        /\ req.n >= 1
        /\ sim[r].result.final_cloud[1] # [lon |-> req.lon0, lat |-> req.lat0]

AllZero(a) == \A i \in 1..Len(a) : a[i] = 0

\* C10: in the scenario (one hour, windage 0, diffusivity 0, no dataset)
\* every call runs exactly 6 steps, its random displacement is zero at
\* every step, and its mean_track is the same for every seed.
C10_NoRandomness ==
    (/\ req.minutes = 60 /\ req.windage = 0 /\ req.diff = 0
     /\ ~fields.ds_ecco.loaded /\ ~fields.ds_merra.loaded) =>
        /\ \A r \in Runs :
              /\ Finished(r) => (sim[r].pc = "done" /\ sim[r].k = 6)
              /\ AllZero(sim[r].dx_rand) /\ AllZero(sim[r].dy_rand)
        /\ (sim["a"].pc = "done" /\ sim["b"].pc = "done") =>
              sim["a"].result.mean_track = sim["b"].result.mean_track

\* The request Q in the other direction
Opposite(Q) == [Q EXCEPT !.backward = ~Q.backward]

\* The locals S with the step of the other direction
Reversed(S) == [S EXCEPT !.dt_sec = -S.dt_sec]

\* The call r in the other direction, driven alone to its end
AloneOpposite(r) ==
    Drive(Begin(Opposite(req), sim[r].seedArg, sim[r].seed), Opposite(req),
          FieldProvider(env.xr, env.ecco, env.merra), env.size1, readable)

\* The locals A and B after a step end the call or not alike, count and
\* sample the track alike, hold the same random displacements, and their
\* particles are clamped alike: each particle is as the clip leaves it, in
\* the Domain in both or in neither (a NaN particle, see C2)
StepsAlike(A, B) ==
    /\ B.pc = A.pc /\ B.raisedAt = A.raisedAt
    /\ B.k = A.k /\ B.sample_accum = A.sample_accum
    /\ Len(B.mean_track) = Len(A.mean_track)
    /\ B.defaulted = A.defaulted
    /\ B.dx_rand = A.dx_rand /\ B.dy_rand = A.dy_rand
    /\ B.pc # "raised" =>
          \A i \in 1..Len(B.lat) :
             /\ Clamped(A.lat[i], A.lon[i]) /\ Clamped(B.lat[i], B.lon[i])
             /\ InDomain(B.lat[i], B.lon[i]) <=> InDomain(A.lat[i], A.lon[i])
             /\ B.lat[i] = NaN <=> A.lat[i] = NaN
             /\ B.lon[i] = NaN <=> A.lon[i] = NaN

\* The finished calls S and O ended alike after the same number of steps
\* with the same number of track and cloud points
CallsAlike(S, O) ==
    /\ O.pc = S.pc /\ O.raisedAt = S.raisedAt
    /\ O.steps = S.steps /\ O.k = S.k
    /\ O.sample_accum = S.sample_accum
    /\ Len(O.result.mean_track) = Len(S.result.mean_track)
    /\ Len(O.result.final_cloud) = Len(S.result.final_cloud)

\* C11: the direction changes the sign of the step and nothing else.  A call
\* starts in the other direction with the same particles and step count and
\* the negated step; from equal field samples a step in the other direction
\* ends the call or not alike, counts and samples the track alike, draws the
\* same random displacements from the same non-negative sigma, clamps every
\* particle alike, and its advective displacement is the negation;
\* the whole call in the other direction ends alike after the same number
\* of steps with the same number of track points.  Each call is compared
\* while no other call is between its start and its end.
C11_BackwardNegatesStepOnly ==
    \A r \in Runs :
        (\A q \in Runs \ {r} : sim[q].pc \notin Querying \cup {"advance"}) =>
        LET S == sim[r]
        IN /\ S.pc # "idle" =>
                 /\ S.k = 0 => Begin(Opposite(req), S.seedArg, S.seed)
                                  = Reversed(Begin(req, S.seedArg, S.seed))
                 /\ S.raisedAt # "np.full" =>
                       /\ S.steps = StepCount(req.minutes)
                       /\ S.dt_sec = (IF req.backward THEN -1 ELSE 1) * DT_SECONDS
           /\ S.pc = "advance" =>
                 /\ \A A \in {Advanced(S, req, env.size1)} :
                       \A B \in {Advanced(Reversed(S), Opposite(req), env.size1)} :
                          StepsAlike(A, B)
                 /\ \A sigma \in {Sigma(req.diff, S.dt_sec)} :
                       sigma >= 0 /\ Sigma(req.diff, -S.dt_sec) = sigma
                 /\ \A i \in 1..req.n :
                       /\ Advection(S.u_c[i], -S.dt_sec)
                             = Neg(Advection(S.u_c[i], S.dt_sec))
                       /\ Advection(S.v_c[i], -S.dt_sec)
                             = Neg(Advection(S.v_c[i], S.dt_sec))
           /\ (Finished(r) /\ ioFlips = 0) =>
                 \A O \in {AloneOpposite(r)} : CallsAlike(S, O)

\* a backward call has sampled a current that is not zero, with a
\* diffusivity that is not zero, and later returned after three steps
C11_Witness ==
    \E r \in Runs :
        /\ sim[r].pc = "done" /\ req.backward
        /\ sim[r].k >= SAMPLE_EVERY_STEPS
        /\ req.n >= 1 /\ req.diff > 0
        /\ sim[r].u_c[1] # 0 /\ sim[r].v_c[1] # 0

\* Call r stands between two steps, at the top of the loop body (line 264):
\* step sim[r].k - 1 is complete and the queries of step sim[r].k have not
\* begun (a call of no particle makes none)
BetweenSteps(r) ==
    /\ sim[r].pc = (IF req.n = 0 THEN "advance" ELSE "query")
    /\ sim[r].qi = 1
    /\ sim[r].k < sim[r].steps

\* C12: a call can be stopped after any completed step: whenever it stands
\* between two steps it can return at once, without failing, the mean_track
\* accumulated so far and the particle cloud as it stands.
C12_CanStopAfterAnyStep ==
    \A r \in Runs :
        BetweenSteps(r) =>
            ENABLED (/\ Next
                     /\ sim'[r].pc = "done"
                     /\ sim'[r].k = sim[r].k
                     /\ sim'[r].result.mean_track
                           = FinalTrack(sim[r].mean_track, req.lat0, req.lon0)
                     /\ sim'[r].result.final_cloud = Cloud(sim[r].lon, sim[r].lat))

\* C13: a call whose particles exist is Running (querying or advancing)
\* while steps remain and Done after them, and nothing else: its step count
\* is floor(|hours*3600/DT_SECONDS|), each step is one tick of magnitude
\* DT_SECONDS signed by the direction, it has completed no more steps than
\* its step count, and it is Done exactly when it has completed them all.
C13_RunningUntilDone ==
    \A r \in Runs :
        (sim[r].pc # "idle" /\ sim[r].raisedAt # "np.full") =>
            /\ sim[r].pc \in Querying \cup {"advance", "done"}
            /\ sim[r].steps = StepCount(req.minutes)
            /\ sim[r].dt_sec = (IF req.backward THEN -DT_SECONDS ELSE DT_SECONDS)
            /\ sim[r].k <= sim[r].steps
            /\ sim[r].pc = "done" <=> sim[r].k = sim[r].steps

\* The track and the counter of call r account for its completed steps,
\* and the last track point is the centroid of the particles as the step
\* that appended it left them, clamped
TrackAccountsForSteps(r) ==
    LET S == sim[r]
        len == Len(S.mean_track)
    IN /\ len * SAMPLE_EVERY_STEPS + S.sample_accum = S.k
       /\ 0 <= S.sample_accum /\ S.sample_accum < SAMPLE_EVERY_STEPS
       /\ (len > 0 /\ S.sample_accum = 0) =>
             /\ S.mean_track[len] = Centroid(S.lon, S.lat)
             /\ \A i \in 1..Len(S.lat) : Clamped(S.lat[i], S.lon[i])
       /\ (S.pc = "done" /\ S.steps >= SAMPLE_EVERY_STEPS) =>
             /\ S.result.mean_track = S.mean_track
             /\ Len(S.result.mean_track) = S.steps \div SAMPLE_EVERY_STEPS

\* A step of the program appends to the track of call r only as it
\* completes a step whose number is a multiple of SAMPLE_EVERY_STEPS, one
\* point at a time, and leaves the earlier points as they are
TrackGrowsOnCadence(r) ==
    LET S == sim[r]
        T == sim'[r]
    IN /\ S.pc # "idle" => SubSeq(T.mean_track, 1, Len(S.mean_track)) = S.mean_track
       /\ T.mean_track # S.mean_track =>
             /\ Len(T.mean_track) = Len(S.mean_track) + 1
             /\ T.k = S.k + 1
             /\ T.k % SAMPLE_EVERY_STEPS = 0
       /\ (T.k = S.k + 1 /\ T.k % SAMPLE_EVERY_STEPS = 0) =>
             Len(T.mean_track) = Len(S.mean_track) + 1

\* C14 as claimed: a centroid is appended to mean_track exactly after the
\* completed steps SAMPLE_EVERY_STEPS, 2*SAMPLE_EVERY_STEPS, ... and after
\* no other; the point appended is the arithmetic mean (lon, lat) of the
\* clamped particles as of that step; earlier points stay, so the track is
\* in time order; a call of S >= SAMPLE_EVERY_STEPS steps yields
\* floor(S/SAMPLE_EVERY_STEPS) points; and at every point of the call
\* len(track)*SAMPLE_EVERY_STEPS + sample_accum is the number of completed
\* steps with 0 <= sample_accum < SAMPLE_EVERY_STEPS.
C14_SamplingCadence ==
    /\ [](\A r \in Runs : TrackAccountsForSteps(r))
    /\ [][\A r \in Runs : TrackGrowsOnCadence(r)]_vars

ReleasePoint == [lon |-> req.lon0, lat |-> req.lat0]

\* The accounting of TrackAccountsForSteps at every point of call r up to
\* the end of its loop; past line 301 in a call that sampled no centroid,
\* the track is the release point alone, which no step has appended and
\* the accounting does not count
TrackAccountsForStepsInLoop(r) ==
    LET S == sim[r]
    IN /\ ~S.defaulted => TrackAccountsForSteps(r)
       /\ S.defaulted =>
             /\ S.pc = "done"
             /\ S.k = S.steps /\ S.steps < SAMPLE_EVERY_STEPS
             /\ S.sample_accum = S.k
             /\ S.mean_track = << ReleasePoint >>
             /\ S.result.mean_track = S.mean_track

\* TrackGrowsOnCadence, but for line 301 putting the release point in the
\* empty track of a call that returns
TrackGrowsOnCadenceInLoop(r) ==
    LET S == sim[r]
        T == sim'[r]
    IN /\ S.pc # "idle" => SubSeq(T.mean_track, 1, Len(S.mean_track)) = S.mean_track
       /\ (T.mean_track # S.mean_track /\ ~T.defaulted) =>
             /\ Len(T.mean_track) = Len(S.mean_track) + 1
             /\ T.k = S.k + 1
             /\ T.k % SAMPLE_EVERY_STEPS = 0
       /\ (T.defaulted /\ ~S.defaulted) =>
             /\ T.pc = "done" /\ S.pc # "done"
             /\ S.mean_track = << >>
             /\ T.mean_track = << ReleasePoint >>
             /\ T.k % SAMPLE_EVERY_STEPS # 0 \/ T.k = 0
       /\ (T.k = S.k + 1 /\ T.k % SAMPLE_EVERY_STEPS = 0) =>
             /\ ~T.defaulted
             /\ Len(T.mean_track) = Len(S.mean_track) + 1

\* C14 as amended: the cadence, the centroids, the time order and the
\* number of track points as claimed; the accounting
\* len(track)*SAMPLE_EVERY_STEPS + sample_accum = completed steps holds at
\* every point of the call up to the end of the loop, and no longer once
\* lines 300-301 have put the release point in the empty track of a call
\* of fewer than SAMPLE_EVERY_STEPS steps: then len(track) is 1 and
\* sample_accum is the number of completed steps.
C14_SamplingCadenceInLoop ==
    /\ [](\A r \in Runs : TrackAccountsForStepsInLoop(r))
    /\ [][\A r \in Runs : TrackGrowsOnCadenceInLoop(r)]_vars

\* a call of 6 steps has returned two track points that differ
C14_Witness ==
    \E r \in Runs :
        /\ sim[r].pc = "done" /\ sim[r].k = 2 * SAMPLE_EVERY_STEPS
        /\ Len(sim[r].result.mean_track) = 2
        /\ sim[r].result.mean_track[1] # sim[r].result.mean_track[2]

\* C16 as claimed: of a call that returns, the release point is in
\* mean_track if and only if no centroid was sampled (fewer than
\* SAMPLE_EVERY_STEPS steps); so with fewer steps mean_track is the release
\* point alone, with SAMPLE_EVERY_STEPS steps or more the track does not
\* start at the release point, and with a step count that is no multiple of
\* SAMPLE_EVERY_STEPS the last track point is of an earlier step than
\* final_cloud.
C16_ReleasePointIffNoSample ==
    \A r \in Runs :
        sim[r].pc = "done" =>
            LET S == sim[r]
                track == S.result.mean_track
            IN /\ (\E j \in 1..Len(track) : track[j] = ReleasePoint)
                     <=> S.steps < SAMPLE_EVERY_STEPS
               /\ S.steps < SAMPLE_EVERY_STEPS => track = << ReleasePoint >>
               /\ S.steps >= SAMPLE_EVERY_STEPS => track[1] # ReleasePoint
               /\ (S.steps >= SAMPLE_EVERY_STEPS /\ S.steps % SAMPLE_EVERY_STEPS # 0) =>
                     Len(track) * SAMPLE_EVERY_STEPS < S.k

\* The particles of call r as lines 249-250 created them
InitialCloud(r) ==
    Cloud(InitialLon(req.lon0, req.n, sim[r].seed),
          InitialLat(req.lat0, req.n, sim[r].seed))

\* C16 as amended: the code puts the release point in mean_track (lines
\* 300-301) if and only if no centroid was sampled, that is when fewer than
\* SAMPLE_EVERY_STEPS steps execute; so a call of 1 or 2 steps returns
\* mean_track = [(lon0, lat0)] although the particles of final_cloud have
\* moved; a call of SAMPLE_EVERY_STEPS steps or more returns its sampled
\* centroids and no release point put in (a centroid may itself be the
\* release point); with a step count that is no multiple of
\* SAMPLE_EVERY_STEPS the last track point is the centroid of an earlier
\* step than final_cloud, and with a multiple the centroid of final_cloud.
\* A call that raises returns neither track nor cloud, and line 300 is not
\* reached.
C16_ReleasePointPutIffNoSample ==
    \A r \in Runs :
        LET S == sim[r]
            track == S.result.mean_track
        IN /\ S.pc = "raised" =>
                 /\ ~S.defaulted
                 /\ S.mean_track = << >> /\ S.k = 0
                 /\ track = << >> /\ S.result.final_cloud = << >>
           /\ S.pc = "done" =>
                 /\ S.defaulted <=> S.steps < SAMPLE_EVERY_STEPS
                 /\ S.defaulted => track = << ReleasePoint >>
                 /\ S.steps \in 1..(SAMPLE_EVERY_STEPS - 1) =>
                       /\ S.k = S.steps
                       /\ \A i \in 1..req.n :
                             S.result.final_cloud[i] # InitialCloud(r)[i]
                 /\ ~S.defaulted =>
                       /\ Len(track) = S.steps \div SAMPLE_EVERY_STEPS
                       /\ S.sample_accum = S.steps % SAMPLE_EVERY_STEPS
                       /\ S.sample_accum # 0 =>
                             Len(track) * SAMPLE_EVERY_STEPS < S.k
                       /\ S.sample_accum = 0 =>
                             track[Len(track)] = Centroid(S.lon, S.lat)
                 /\ S.result.final_cloud = Cloud(S.lon, S.lat)

\* a call of 4 steps has returned one track point, which is neither the
\* release point nor where the particle of final_cloud is
C16_Witness ==
    \E r \in Runs :
        /\ sim[r].pc = "done" /\ sim[r].steps = SAMPLE_EVERY_STEPS + 1
        /\ Len(sim[r].result.mean_track) = 1
        /\ sim[r].result.mean_track[1] # ReleasePoint
        /\ sim[r].result.mean_track[1] # sim[r].result.final_cloud[1]

\* ------------------------------------------------------------------------
\* The field provider called directly
\* ------------------------------------------------------------------------
ProbeLats == {22500000, 23600000, 26000000}

ProbeLons == {56500000, 58500000}

ProbeTimes == {-21600, 0, 600}

DefaultRequest ==
    [lat0 |-> 23600000, lon0 |-> 58500000, minutes |-> 2880, n |-> 8000,
     windage |-> 20, diff |-> 500, backward |-> FALSE]

\* The process after import, for everything the loaders can find
InitFields ==
    /\ env \in [xr : BOOLEAN, size1 : {TRUE}, ecco : EccoFiles, merra : MerraFiles]
    /\ fields = FieldProvider(env.xr, env.ecco, env.merra)
    /\ readable \in IF fields.ds_ecco.loaded \/ fields.ds_merra.loaded
                    THEN BOOLEAN ELSE {TRUE}
    /\ ioFlips = 0
    /\ req = DefaultRequest
    /\ sim = [r \in Runs |-> IdleSim]
    /\ fellBack = [r \in Runs |-> FALSE]
    /\ probe = NoProbe

\* A client calls FIELDS.current_uv(lat, lon, tsec), as /currents does
\* (line 398) and simulate_particles at line 270: the method up to its
\* first read
ProbeCurrentU ==
    /\ probe.kind \notin {"current_v", "wind_v"}
    /\ \E lat \in ProbeLats, lon \in ProbeLons, tsec \in ProbeTimes :
          LET first == current_uv_u(fields, lat, lon, tsec, readable)
              args == [lat |-> lat, lon |-> lon, tsec |-> tsec]
          IN probe' = IF first.more
                      THEN [kind |-> "current_v", args |-> args, u |-> first.u]
                      ELSE [kind |-> "current", args |-> args,
                            out |-> [cur |-> first.ret]]
    /\ fields' = ProviderAfterQuery(fields)
    /\ UNCHANGED <<env, readable, ioFlips, req, sim, fellBack>>

\* current_uv makes its second read and returns to the client
ProbeCurrentV ==
    /\ probe.kind = "current_v"
    /\ LET a == probe.args
       IN probe' = [kind |-> "current", args |-> a,
                    out |-> [cur |-> current_uv_v(fields, probe.u, a.lat, a.lon,
                                                 a.tsec, readable)]]
    /\ fields' = ProviderAfterQuery(fields)
    /\ UNCHANGED <<env, readable, ioFlips, req, sim, fellBack>>

\* The client calls FIELDS.wind10m_uv for the same point and time, as
\* simulate_particles does at line 271: the method up to its first read
ProbeWindU ==
    /\ probe.kind = "current"
    /\ LET a == probe.args
           first == wind10m_uv_u10(fields, a.lat, a.lon, a.tsec, readable)
       IN probe' = IF first.more
                   THEN [kind |-> "wind_v", args |-> a, u |-> first.u,
                         out |-> probe.out]
                   ELSE [kind |-> "fields", args |-> a,
                         out |-> [cur |-> probe.out.cur, wind |-> first.ret]]
    /\ fields' = ProviderAfterQuery(fields)
    /\ UNCHANGED <<env, readable, ioFlips, req, sim, fellBack>>

\* wind10m_uv makes its second read and returns to the client
ProbeWindV ==
    /\ probe.kind = "wind_v"
    /\ LET a == probe.args
       IN probe' = [kind |-> "fields", args |-> a,
                    out |-> [cur |-> probe.out.cur,
                             wind |-> wind10m_uv_v10(fields, probe.u, a.lat, a.lon,
                                                     a.tsec, readable)]]
    /\ fields' = ProviderAfterQuery(fields)
    /\ UNCHANGED <<env, readable, ioFlips, req, sim, fellBack>>

NextFields ==
    ProbeCurrentU \/ ProbeCurrentV \/ ProbeWindU \/ ProbeWindV \/ ToggleIO

SpecFields == InitFields /\ [][NextFields]_vars

\* the conditions under which a loader returns None
NoEcco(e) ==
    \/ ~e.xr \/ ~e.ecco.exists \/ ~e.ecco.opens
    \/ ~({"u", "v", "lat", "lon", "time"} \subseteq e.ecco.names)

NoMerra(e) ==
    \/ ~e.xr \/ ~e.merra.exists \/ ~e.merra.opens
    \/ ~({"u10", "v10", "lat", "lon", "time"} \subseteq e.merra.names)

\* C5: with the dataset reader unavailable, the file absent, the open
\* failing or a required variable or coordinate missing, the loader returns
\* None, and every call of current_uv (wind10m_uv) returns, without raising
\* and without a read of the file, what SyntheticFields.uv_current
\* (uv_wind10m) gives for the same lat, lon and time.
C5_NoDatasetIsSynthetic ==
    /\ NoEcco(env) =>
          /\ ~fields.ds_ecco.loaded
          /\ probe.kind # "current_v"
          /\ probe.kind \in {"current", "fields"} =>
                LET a == probe.args
                    uv == uv_current(a.lat, a.lon, a.tsec)
                IN probe.out.cur = [raised |-> FALSE, u |-> uv.u, v |-> uv.v]
    /\ NoMerra(env) =>
          /\ ~fields.ds_merra.loaded
          /\ probe.kind # "wind_v"
          /\ probe.kind = "fields" =>
                LET a == probe.args
                    uv == uv_wind10m(a.lat, a.lon, a.tsec)
                IN probe.out.wind = [raised |-> FALSE, u |-> uv.u, v |-> uv.v]

\* the provider was queried with an ocean file that opens but lacks a name,
\* and with a wind file that is absent
C5_Witness ==
    /\ probe.kind = "fields"
    /\ env.xr /\ env.ecco.exists /\ env.ecco.opens /\ NoEcco(env)
    /\ ~env.merra.exists
    /\ probe.args.tsec # 0

\* ------------------------------------------------------------------------
\* The grid interpolation called directly
\* ------------------------------------------------------------------------
\* grids of 1x1, 1x3, 2x2 and 3x2 (rows x columns) values
ProbeGrids ==
    { << <<7>> >>,
      << <<10, -20, 30>> >>,
      << <<100, 300>>, <<-200, 400>> >>,
      << <<-50, 250>>, <<600, -300>>, <<2000, 1200>> >> }

\* fractional indices in hundredths of a cell, from 2.5 cells below the
\* first index to beyond the last
ProbeIndices == {-250, -100, -40, 0, 50, 100, 130, 200, 360}

\* a dataset with a single latitude
OneRowContent ==
    [exists |-> TRUE, opens |-> TRUE,
     names |-> {"u", "v", "lat", "lon", "time"},
     lats |-> <<24000000>>,
     lons |-> <<56500000, 60500000>>,
     vars |-> [nm \in {"u", "v"} |-> << << <<120, 340>> >> >>]]

\* a dataset whose first two and last two latitudes are equal: cells of
\* zero width at both edges
ZeroWidthContent ==
    [exists |-> TRUE, opens |-> TRUE,
     names |-> {"u", "v", "lat", "lon", "time"},
     lats |-> <<22500000, 22500000, 26000000, 26000000>>,
     lons |-> <<56500000, 60500000>>,
     vars |-> [nm \in {"u", "v"} |->
                 << << <<100, 300>>, <<-200, 400>>, <<-1500, 900>>, <<700, -800>> >> >>]]

\* the ocean dataset with a cell that holds no number (a masked cell)
MaskedCellContent ==
    [EccoContent EXCEPT
        !.vars = [nm \in {"u", "v"} |->
                    << << <<100, 300>>, <<-200, NaN>>, <<-1500, 900>> >> >>]]

ProbeDatasets ==
    {Opened(EccoContent), Opened(OneRowContent), Opened(ZeroWidthContent),
     Opened(MaskedCellContent)}

ProbeSampleLats == {22000000, 22500000, 23600000, 24000000, 26000000, 27000000}

ProbeSampleLons == {56000000, 56500000, 58500000, 60500000, 61000000}

\* the first and last coordinate and the nearest values beyond them
EdgeProbes(cs) == {cs[1] - 1, cs[1], cs[Len(cs)], cs[Len(cs)] + 1}

HasZeroWidth(cs) == \E j \in 1..(Len(cs) - 1) : cs[j + 1] = cs[j]

\* the latitudes sample_from_dataset is called with: against a cell of zero
\* width, where the fractional index is the distance over the guard, the
\* points on and next to the edges
SampleLats(ds) ==
    IF HasZeroWidth(ds.lats) THEN EdgeProbes(ds.lats)
    ELSE ProbeSampleLats \cup {NaN}

\* latitudes from pole to pole and just beyond, and displacements in
\* micro-metres
ProbeConvLats ==
    {-90000000, 0, 23600000, 60000000, 89990000, 89999000, 90000000, 90001000}

ProbeDisplacements == {-151200000, 0, 1, 11400000}

InitGrid ==
    /\ env = [xr |-> TRUE, size1 |-> TRUE, ecco |-> Absent(EccoContent),
              merra |-> Absent(MerraContent)]
    /\ fields = FieldProvider(env.xr, env.ecco, env.merra)
    /\ readable = TRUE
    /\ ioFlips = 0
    /\ req = DefaultRequest
    /\ sim = [r \in Runs |-> IdleSim]
    /\ fellBack = [r \in Runs |-> FALSE]
    /\ probe = NoProbe

\* bilinear_interpolate(arr2d, x, y) is called
ProbeBilinear ==
    /\ \E g \in ProbeGrids, x \in ProbeIndices, y \in ProbeIndices :
          probe' = [kind |-> "bilinear",
                    args |-> [arr2d |-> g, x |-> x, y |-> y],
                    out |-> [ok |-> TRUE, val |-> bilinear_interpolate(g, x, y)]]
    /\ UNCHANGED <<env, fields, readable, ioFlips, req, sim, fellBack>>

\* sample_from_dataset(ds, "u", lat, lon, 0) is called
ProbeSample ==
    /\ \E ds \in ProbeDatasets : \E lat \in SampleLats(ds), lon \in ProbeSampleLons :
          probe' = [kind |-> "sample",
                    args |-> [ds |-> ds, lat |-> lat, lon |-> lon],
                    out |-> sample_from_dataset(ds, "u", lat, lon, 0, TRUE)]
    /\ UNCHANGED <<env, fields, readable, ioFlips, req, sim, fellBack>>

\* meters_to_deg_lon(d, lat_) is called with a latitude (line 259)
ProbeConversion ==
    /\ \E d \in ProbeDisplacements, lat \in ProbeConvLats :
          probe' = [kind |-> "meters_to_deg_lon",
                    args |-> [d |-> d, lat |-> lat],
                    out |-> [ok |-> LonDenominator(lat).den # 0,
                             val |-> meters_to_deg_lon(d, lat)]]
    /\ UNCHANGED <<env, fields, readable, ioFlips, req, sim, fellBack>>

NextGrid == ProbeBilinear \/ ProbeSample \/ ProbeConversion

SpecGrid == InitGrid /\ [][NextGrid]_vars

\* the index of the coordinate equal to c, the first index for a c below
\* the array and the last for a c above it (0-based); -1 for a c strictly
\* between two coordinates
VertexOrEdge(cs, c) ==
    IF c = NaN THEN -1
    ELSE IF c < cs[1] THEN 0
    ELSE IF c > cs[Len(cs)] THEN Len(cs) - 1
    ELSE IF \E j \in 1..Len(cs) : cs[j] = c
         THEN (CHOOSE j \in 1..Len(cs) : cs[j] = c) - 1
         ELSE -1

\* the same for a fractional index x of an axis of n cells
IndexOrEdge(x, n) ==
    IF x < 0 THEN 0
    ELSE IF x > 100 * (n - 1) THEN n - 1
    ELSE IF x % 100 = 0 THEN x \div 100
    ELSE -1

\* C9 for bilinear_interpolate: at whole indices inside the grid the value
\* of the vertex; outside the grid on an axis the value on the nearest edge,
\* interpolated along the other axis only.
BilinearAtVertexAndEdge ==
    probe.kind = "bilinear" =>
        LET g == probe.args.arr2d
            x == probe.args.x
            y == probe.args.y
            nx == Len(g[1])
            ny == Len(g)
            ix == IndexOrEdge(x, nx)
            iy == IndexOrEdge(y, ny)
            y0 == y \div 100
            x0 == x \div 100
        IN /\ (ix >= 0 /\ iy >= 0) => probe.out.val = GridAt(g, iy, ix)
           /\ (ix >= 0 /\ iy < 0) =>
                 probe.out.val = Quot(GridAt(g, y0, ix) * (100 - (y - 100 * y0))
                                      + GridAt(g, y0 + 1, ix) * (y - 100 * y0), 100)
           /\ (ix < 0 /\ iy >= 0) =>
                 probe.out.val = Quot(GridAt(g, iy, x0) * (100 - (x - 100 * x0))
                                      + GridAt(g, iy, x0 + 1) * (x - 100 * x0), 100)

\* C9: bilinear_interpolate returns the vertex value at whole indices and
\* the nearest edge value outside the grid, and sample_from_dataset, for a
\* lat and lon each equal to a grid coordinate or outside the coordinate
\* array, returns without error the value of that vertex or edge.
C9_VertexAndEdgeValues ==
    /\ BilinearAtVertexAndEdge
    /\ probe.kind = "sample" =>
          LET ds == probe.args.ds
              iy == VertexOrEdge(ds.lats, probe.args.lat)
              ix == VertexOrEdge(ds.lons, probe.args.lon)
          IN (ix >= 0 /\ iy >= 0) =>
                /\ probe.out.ok
                /\ probe.out.val = GridAt(ds.vars["u"][1], iy, ix)

\* C15: the numeric edge cases never raise: sample_from_dataset returns for
\* coordinate arrays of any length >= 1 per axis, with a single point or
\* two equal adjacent coordinates, for a query inside, on or beyond a grid
\* edge; and the denominator of meters_to_deg_lon is never zero, at the
\* poles included.
C15_EdgeCasesNeverRaise ==
    /\ (probe.kind = "sample" /\ probe.args.lat # NaN) => probe.out.ok
    /\ probe.kind = "meters_to_deg_lon" => probe.out.ok

====
